---- MODULE Spec2Model ----
(***************************************************************************)
(* Model of the Hijack! Chess Socket.IO coordinator (src/server.js): the   *)
(* room store `rooms`, the `matchmakingQueue`, the Socket.IO room          *)
(* membership that socket.join / socket.leave / socket.to(...).emit act    *)
(* on, and one action per socket handler.                                  *)
(***************************************************************************)
EXTENDS Integers, Sequences, FiniteSets, TLC

(* ------------------------------ bounds --------------------------------- *)

\* Number of handler steps explored along one behaviour.
MaxSteps == 6

\* Connection ids (socket.id), room codes and time-control tokens in play.
Sockets == {"s1", "s2", "s3"}
RoomIds == {"AAAAAA", "BBBBBB"}
TimeControls == {"60+0", "300+0"}

\* JavaScript null (black: null, timeControl: null) and "no payload field".
Null == "null"

\* A name that socket.to(name) / io.to(name) can address: a room code, or a
\* socket id (every connected socket sits in the room named by its own id,
\* which is what io.to(opponent.socketId) relies on).
Names == RoomIds \cup Sockets

VARIABLES
    status,            \* per socket: "fresh", "connected", "disconnecting",
                       \* "stalled" (removeSession never settles), "closed"
    rooms,             \* the Map `rooms`: room id -> room record
    matchmakingQueue,  \* the array `matchmakingQueue`
    joined,            \* Socket.IO adapter: room id -> set of sockets that joined it
    currentOnline,     \* analytics.currentOnline
    last,              \* the signal whose handler step ran last
    sent,              \* the messages that step delivered
    steps,             \* number of handler steps taken so far
    fingerprints,      \* per socket: its 'fingerprint' handlers suspended at an await
    uniqueVisitors,    \* analytics.uniqueVisitors
    totalVisits,       \* analytics.totalVisits
    peakConcurrent     \* analytics.peakConcurrent

\* What only the 'fingerprint' handler writes.
presenceVars == <<fingerprints, uniqueVisitors, totalVisits, peakConcurrent>>

vars == <<status, rooms, matchmakingQueue, joined, currentOnline, last, sent, steps,
          fingerprints, uniqueVisitors, totalVisits, peakConcurrent>>

(* ------------------------------ helpers -------------------------------- *)

\* One delivered message: recipient, event name, the room name it was routed
\* through (Null for socket.emit), and the payload fields the claims use.
Msg(to, ev, via, roomId, color, timeControl) ==
    [to |-> to, ev |-> ev, via |-> via, roomId |-> roomId, color |-> color,
     timeControl |-> timeControl, message |-> Null]

\* socket.emit('error', { message })
ErrorMsg(to, message) ==
    [to |-> to, ev |-> "error", via |-> Null, roomId |-> Null, color |-> Null,
     timeControl |-> Null, message |-> message]

Signal(op, s, roomId, timeControl, ignoreTime) ==
    [op |-> op, socketId |-> s, roomId |-> roomId, timeControl |-> timeControl,
     ignoreTime |-> ignoreTime]

\* rooms.has / rooms.set / rooms.delete
Has(rs, roomId) == roomId \in DOMAIN rs

MapSet(rs, roomId, room) ==
    [r \in (DOMAIN rs) \cup {roomId} |-> IF r = roomId THEN room ELSE rs[r]]

MapDelete(rs, roomId) == [r \in (DOMAIN rs) \ {roomId} |-> rs[r]]

\* players.includes(id) / players.filter(id => id !== socket.id)
Includes(players, s) == \E i \in 1..Len(players) : players[i] = s

FilterOut(players, s) == SelectSeq(players, LAMBDA id : id # s)

\* array.splice(i, 1), 1-based
Splice(q, i) == [k \in 1..(Len(q) - 1) |-> IF k < i THEN q[k] ELSE q[k + 1]]

\* matchmakingQueue.findIndex(p => p.socketId === socket.id); 0 stands for -1
FindIndex(q, s) ==
    IF \E i \in 1..Len(q) : q[i].socketId = s
    THEN CHOOSE i \in 1..Len(q) :
            /\ q[i].socketId = s
            /\ \A j \in 1..(i - 1) : q[j].socketId # s
    ELSE 0

\* The members of the Socket.IO room `name`: the sockets that joined a room
\* code, or the connected socket itself for a socket id.
Members(name) ==
    IF name \in Sockets
    THEN (IF status[name] = "connected" THEN {name} ELSE {})
    ELSE joined[name]

\* socket.to(name): every member of the room except the sending socket.
SocketTo(s, name) == Members(name) \ {s}

\* io.to(name): every member of the room.
IoTo(name) == Members(name)

\* The client can send signals only while its transport is open.
Open(s) == status[s] = "connected"

Budget == steps < MaxSteps

\* The 'fingerprint' handlers of one socket that are suspended, counted by
\* the await they wait at: `await isUniqueVisitor(fingerprint)`, the
\* `await saveAnalytics()` of the unique-visitor branch, and the awaits that
\* follow the increment of currentOnline (saveAnalytics of the peak branch,
\* recordVisitor, updateSession).
NoHandlers == [isUniqueVisitor |-> 0, saveAnalytics |-> 0, recordVisitor |-> 0]

(* ------------------------------ actions -------------------------------- *)

Init ==
    /\ status = [s \in Sockets |-> "fresh"]
    /\ rooms = <<>>
    /\ matchmakingQueue = <<>>
    /\ joined = [r \in RoomIds |-> {}]
    /\ currentOnline = 0
    /\ last = Signal("init", Null, Null, Null, FALSE)
    /\ sent = {}
    /\ steps = 0
    /\ fingerprints = [s \in Sockets |-> NoHandlers]
    /\ uniqueVisitors = 0
    /\ totalVisits = 0
    /\ peakConcurrent = 0

\* io.on('connection'): the socket joins the room named by its id and is
\* asked for its fingerprint.
Connect(s) ==
    /\ status[s] = "fresh" /\ Budget
    /\ steps' = steps + 1
    /\ status' = [status EXCEPT ![s] = "connected"]
    /\ last' = Signal("connection", s, Null, Null, FALSE)
    /\ sent' = {Msg(s, "requestFingerprint", Null, Null, Null, Null)}
    /\ UNCHANGED <<rooms, matchmakingQueue, joined, currentOnline>>
    /\ UNCHANGED presenceVars

\* A room record that already names its creator as black.
NewRoomCreatorBlack(s) ==
    [players |-> <<s>>, white |-> s, black |-> s, timeControl |-> Null]

\* The record createRoom stores: the creator alone, as white.
NewRoom(s) ==
    [players |-> <<s>>, white |-> s, black |-> Null, timeControl |-> Null]

\* socket.on('createRoom')
CreateRoom(s, roomId) ==
    /\ Open(s) /\ Budget
    /\ steps' = steps + 1
    /\ last' = Signal("createRoom", s, roomId, Null, FALSE)
    /\ IF Has(rooms, roomId)
       THEN /\ sent' = {ErrorMsg(s, "Room already exists")}
            /\ UNCHANGED <<rooms, joined>>
       ELSE /\ rooms' = MapSet(rooms, roomId, NewRoom(s))
            /\ joined' = [joined EXCEPT ![roomId] = @ \cup {s}]
            /\ sent' = {Msg(s, "roomCreated", Null, roomId, Null, Null)}
    /\ UNCHANGED <<status, matchmakingQueue, currentOnline>>
    /\ UNCHANGED presenceVars

\* A fullness test that is off by one.
RoomFullOffByOne(room) == Len(room.players) > 2

\* room.players.length >= 2
RoomFull(room) == Len(room.players) >= 2

\* A join-time sync that is emitted to the whole room.
JoinSyncBroadcast(s, roomId) ==
    IF rooms[roomId].timeControl # Null
    THEN {Msg(m, "timeControlSync", roomId, Null, Null, rooms[roomId].timeControl) :
             m \in IoTo(roomId) \cup {s}}
    ELSE {}

\* if (room.timeControl) socket.emit('timeControlSync', ...): to the joiner.
JoinSync(s, roomId) ==
    IF rooms[roomId].timeControl # Null
    THEN {Msg(s, "timeControlSync", Null, Null, Null, rooms[roomId].timeControl)}
    ELSE {}

\* socket.on('joinRoom')
JoinRoom(s, roomId) ==
    /\ Open(s) /\ Budget
    /\ steps' = steps + 1
    /\ last' = Signal("joinRoom", s, roomId, Null, FALSE)
    /\ IF ~Has(rooms, roomId)
       THEN /\ sent' = {ErrorMsg(s, "Room does not exist")}
            /\ UNCHANGED <<rooms, joined>>
       ELSE IF RoomFull(rooms[roomId])
       THEN /\ sent' = {ErrorMsg(s, "Room is full")}
            /\ UNCHANGED <<rooms, joined>>
       ELSE /\ rooms' = [rooms EXCEPT ![roomId].players = Append(@, s),
                                      ![roomId].black = s]
            /\ joined' = [joined EXCEPT ![roomId] = @ \cup {s}]
            /\ sent' = {Msg(s, "roomJoined", Null, roomId, Null, Null)}
                       \cup JoinSync(s, roomId)
                       \cup {Msg(m, "opponentJoined", roomId, Null, Null, Null) :
                                m \in SocketTo(s, roomId)}
    /\ UNCHANGED <<status, matchmakingQueue, currentOnline>>
    /\ UNCHANGED presenceVars

\* The body shared by the five relay handlers: socket.to(roomId).emit(ev).
Relay(s, op, ev, name) ==
    /\ Open(s) /\ Budget
    /\ steps' = steps + 1
    /\ last' = Signal(op, s, name, Null, FALSE)
    /\ sent' = {Msg(m, ev, name, Null, Null, Null) : m \in SocketTo(s, name)}
    /\ UNCHANGED <<status, rooms, matchmakingQueue, joined, currentOnline>>
    /\ UNCHANGED presenceVars

\* socket.on('move')
Move(s, name) == Relay(s, "move", "opponentMove", name)

\* socket.on('gameOver')
GameOver(s, name) == Relay(s, "gameOver", "gameOver", name)

\* socket.on('rematchRequest')
RematchRequest(s, name) == Relay(s, "rematchRequest", "rematchRequest", name)

\* socket.on('rematchAccept')
RematchAccept(s, name) == Relay(s, "rematchAccept", "rematchAccepted", name)

\* socket.on('rematchDecline')
RematchDecline(s, name) == Relay(s, "rematchDecline", "rematchDeclined", name)

\* socket.on('timeControlSet')
TimeControlSet(s, roomId, timeControl) ==
    /\ Open(s) /\ Budget
    /\ steps' = steps + 1
    /\ last' = Signal("timeControlSet", s, roomId, timeControl, FALSE)
    /\ rooms' = IF Has(rooms, roomId)
                THEN [rooms EXCEPT ![roomId].timeControl = timeControl]
                ELSE rooms
    /\ sent' = {}
    /\ UNCHANGED <<status, matchmakingQueue, joined, currentOnline>>
    /\ UNCHANGED presenceVars

\* A match condition that forgets the ignoreTime flags.
CompatibleSameTimeOnly(waiting, timeControl, ignoreTime) ==
    waiting.timeControl = timeControl

\* The match condition of the scan: sameTime || eitherIgnores.
Compatible(waiting, timeControl, ignoreTime) ==
    \/ waiting.timeControl = timeControl
    \/ waiting.ignoreTime
    \/ ignoreTime

\* A scan that keeps going after its first hit and so ends on the last one.
MatchedIndexLast(q, timeControl, ignoreTime) ==
    IF \E i \in 1..Len(q) : Compatible(q[i], timeControl, ignoreTime)
    THEN CHOOSE i \in 1..Len(q) :
            /\ Compatible(q[i], timeControl, ignoreTime)
            /\ \A j \in (i + 1)..Len(q) : ~Compatible(q[j], timeControl, ignoreTime)
    ELSE 0

\* The scan loop of findMatch: the first index whose entry matches; 0 stands
\* for matchedIndex = -1.
MatchedIndex(q, timeControl, ignoreTime) ==
    IF \E i \in 1..Len(q) : Compatible(q[i], timeControl, ignoreTime)
    THEN CHOOSE i \in 1..Len(q) :
            /\ Compatible(q[i], timeControl, ignoreTime)
            /\ \A j \in 1..(i - 1) : ~Compatible(q[j], timeControl, ignoreTime)
    ELSE 0

\* A chain whose last branch takes the requester's time control.
FinalTimeControlRequesterLast(opponent, timeControl, ignoreTime) ==
    IF opponent.timeControl = timeControl THEN timeControl
    ELSE IF ~opponent.ignoreTime /\ ignoreTime THEN opponent.timeControl
    ELSE IF opponent.ignoreTime /\ ~ignoreTime THEN timeControl
    ELSE timeControl

\* The if / else-if chain that sets finalTimeControl.
FinalTimeControl(opponent, timeControl, ignoreTime) ==
    IF opponent.timeControl = timeControl THEN timeControl
    ELSE IF ~opponent.ignoreTime /\ ignoreTime THEN opponent.timeControl
    ELSE IF opponent.ignoreTime /\ ~ignoreTime THEN timeControl
    ELSE opponent.timeControl

\* A match record with the two roles swapped.
MatchedRoomRequesterWhite(opponent, s, finalTimeControl) ==
    [players |-> <<opponent.socketId, s>>, white |-> s,
     black |-> opponent.socketId, timeControl |-> finalTimeControl]

\* The room record of a match.
MatchedRoom(opponent, s, finalTimeControl) ==
    [players |-> <<opponent.socketId, s>>, white |-> opponent.socketId,
     black |-> s, timeControl |-> finalTimeControl]

\* The entry pushed when no opponent is compatible.
QueueEntry(s, timeControl, ignoreTime) ==
    [socketId |-> s, timeControl |-> timeControl, ignoreTime |-> ignoreTime]

\* socket.on('findMatch'); roomId is the value of
\* crypto.randomBytes(3).toString('hex').toUpperCase().
FindMatch(s, timeControl, ignoreTime, roomId) ==
    /\ Open(s) /\ Budget
    /\ steps' = steps + 1
    /\ last' = Signal("findMatch", s, Null, timeControl, ignoreTime)
    /\ LET matchedIndex == MatchedIndex(matchmakingQueue, timeControl, ignoreTime)
       IN IF matchedIndex # 0
          THEN LET opponent == matchmakingQueue[matchedIndex]
                   finalTimeControl ==
                       FinalTimeControl(opponent, timeControl, ignoreTime)
               IN /\ matchmakingQueue' = Splice(matchmakingQueue, matchedIndex)
                  /\ rooms' = MapSet(rooms, roomId,
                                     MatchedRoom(opponent, s, finalTimeControl))
                  /\ joined' = [joined EXCEPT ![roomId] =
                                    @ \cup {s}
                                      \cup (IF status[opponent.socketId] = "connected"
                                            THEN {opponent.socketId} ELSE {})]
                  /\ sent' = {Msg(m, "matchFound", opponent.socketId, roomId,
                                  "white", finalTimeControl) :
                                 m \in IoTo(opponent.socketId)}
                             \cup {Msg(s, "matchFound", Null, roomId, "black",
                                       finalTimeControl)}
          ELSE /\ roomId = CHOOSE r \in RoomIds : TRUE
               /\ matchmakingQueue' =
                      Append(matchmakingQueue, QueueEntry(s, timeControl, ignoreTime))
               /\ sent' = {Msg(s, "searching", Null, Null, Null, Null)}
               /\ UNCHANGED <<rooms, joined>>
    /\ UNCHANGED <<status, currentOnline>>
    /\ UNCHANGED presenceVars

\* socket.on('cancelMatchmaking')
CancelMatchmaking(s) ==
    /\ Open(s) /\ Budget
    /\ steps' = steps + 1
    /\ last' = Signal("cancelMatchmaking", s, Null, Null, FALSE)
    /\ LET index == FindIndex(matchmakingQueue, s)
       IN matchmakingQueue' = IF index > 0 THEN Splice(matchmakingQueue, index)
                              ELSE matchmakingQueue
    /\ sent' = {}
    /\ UNCHANGED <<status, rooms, joined, currentOnline>>
    /\ UNCHANGED presenceVars

\* socket.on('leaveRoom')
LeaveRoom(s, roomId) ==
    /\ Open(s) /\ Budget
    /\ steps' = steps + 1
    /\ last' = Signal("leaveRoom", s, roomId, Null, FALSE)
    /\ IF Has(rooms, roomId)
       THEN LET players == FilterOut(rooms[roomId].players, s)
            IN IF Len(players) = 0
               THEN /\ rooms' = MapDelete(rooms, roomId)
                    /\ sent' = {}
               ELSE /\ rooms' = [rooms EXCEPT ![roomId].players = players]
                    /\ sent' = {Msg(m, "opponentDisconnected", roomId, Null, Null, Null) :
                                   m \in SocketTo(s, roomId)}
       ELSE /\ sent' = {}
            /\ UNCHANGED rooms
    /\ joined' = [joined EXCEPT ![roomId] = @ \ {s}]
    /\ UNCHANGED <<status, matchmakingQueue, currentOnline>>
    /\ UNCHANGED presenceVars

\* The transport closes: Socket.IO takes the socket out of every room, then
\* the 'disconnect' handler runs up to `await removeSession(socket.id)`.
DisconnectBegin(s) ==
    /\ Open(s) /\ Budget
    /\ steps' = steps + 1
    /\ status' = [status EXCEPT ![s] = "disconnecting"]
    /\ joined' = [r \in RoomIds |-> joined[r] \ {s}]
    /\ LET queueIndex == FindIndex(matchmakingQueue, s)
       IN matchmakingQueue' = IF queueIndex > 0
                              THEN Splice(matchmakingQueue, queueIndex)
                              ELSE matchmakingQueue
    /\ last' = Signal("disconnect", s, Null, Null, FALSE)
    /\ sent' = {}
    /\ UNCHANGED <<rooms, currentOnline>>
    /\ UNCHANGED presenceVars

\* io.emit('analyticsUpdate', analytics): every connected socket receives it.
AnalyticsUpdate ==
    {Msg(m, "analyticsUpdate", Null, Null, Null, Null) :
        m \in {x \in Sockets : status[x] = "connected"}}

\* Math.max(0, analytics.currentOnline - 1)
DecrementOnline(n) == IF n - 1 > 0 THEN n - 1 ELSE 0

\* The room ids whose players include s: the rooms rooms.forEach acts on.
RoomsOf(rs, s) == {r \in DOMAIN rs : Includes(rs[r].players, s)}

\* The rooms.forEach of the 'disconnect' handler: s filtered out of every
\* room that includes it, rooms left empty deleted.
CleanUpRooms(rs, s) ==
    [r \in {x \in DOMAIN rs : Len(FilterOut(rs[x].players, s)) > 0} |->
        [rs[r] EXCEPT !.players = FilterOut(@, s)]]

\* The 'disconnect' handler after removeSession has settled (resolved, or
\* failed and caught inside removeSession). It continues a handler that has
\* already started, so the bound on new steps does not hold it back.
DisconnectFinish(s) ==
    /\ status[s] = "disconnecting"
    /\ steps' = steps + 1
    /\ status' = [status EXCEPT ![s] = "closed"]
    /\ currentOnline' = DecrementOnline(currentOnline)
    /\ rooms' = CleanUpRooms(rooms, s)
    /\ sent' = AnalyticsUpdate
               \cup UNION {{Msg(m, "opponentDisconnected", r, Null, Null, Null) :
                                m \in IoTo(r)} :
                            r \in RoomsOf(rooms, s) \cap DOMAIN CleanUpRooms(rooms, s)}
    /\ last' = Signal("disconnectDone", s, Null, Null, FALSE)
    /\ UNCHANGED <<matchmakingQueue, joined>>
    /\ UNCHANGED presenceVars

\* The promise of `await removeSession(socket.id)` never settles (the
\* deleteOne call gets no answer): the 'disconnect' handler of s stays
\* suspended at the await for good.
RemoveSessionStalls(s) ==
    /\ status[s] = "disconnecting"
    /\ status' = [status EXCEPT ![s] = "stalled"]
    /\ last' = Signal("removeSessionStalls", s, Null, Null, FALSE)
    /\ sent' = {}
    /\ UNCHANGED <<rooms, matchmakingQueue, joined, currentOnline, steps>>
    /\ UNCHANGED presenceVars

\* One suspended 'fingerprint' handler of s moves from one await to the next
\* (to = Null: it returns).
Resume(s, from, to) ==
    [fingerprints EXCEPT ![s] =
        [a \in DOMAIN @ |-> IF a = from THEN @[a] - 1
                            ELSE IF a = to THEN @[a] + 1
                            ELSE @[a]]]

\* socket.on('fingerprint') up to `await isUniqueVisitor(fingerprint)`. The
\* handler is registered for as long as the socket lives, so the signal may
\* come any number of times.
Fingerprint(s) ==
    /\ Open(s) /\ Budget
    /\ steps' = steps + 1
    /\ fingerprints' = Resume(s, Null, "isUniqueVisitor")
    /\ last' = Signal("fingerprint", s, Null, Null, FALSE)
    /\ sent' = {}
    /\ UNCHANGED <<status, rooms, matchmakingQueue, joined, currentOnline>>
    /\ UNCHANGED <<uniqueVisitors, totalVisits, peakConcurrent>>

\* isUniqueVisitor answered true (the visitors collection does not know the
\* fingerprint): both visitor counters go up, then `await saveAnalytics()`.
FingerprintUnique(s) ==
    /\ fingerprints[s].isUniqueVisitor > 0
    /\ steps' = steps + 1
    /\ fingerprints' = Resume(s, "isUniqueVisitor", "saveAnalytics")
    /\ uniqueVisitors' = uniqueVisitors + 1
    /\ totalVisits' = totalVisits + 1
    /\ last' = Signal("fingerprintUnique", s, Null, Null, FALSE)
    /\ sent' = {}
    /\ UNCHANGED <<status, rooms, matchmakingQueue, joined, currentOnline>>
    /\ UNCHANGED peakConcurrent

\* analytics.currentOnline++ and the peak update, reached when isUniqueVisitor
\* answered false or when the saveAnalytics of the unique branch settled; the
\* handler then waits for saveAnalytics / recordVisitor / updateSession.
FingerprintOnline(s) ==
    /\ \/ /\ fingerprints[s].isUniqueVisitor > 0
          /\ fingerprints' = Resume(s, "isUniqueVisitor", "recordVisitor")
       \/ /\ fingerprints[s].saveAnalytics > 0
          /\ fingerprints' = Resume(s, "saveAnalytics", "recordVisitor")
    /\ steps' = steps + 1
    /\ currentOnline' = currentOnline + 1
    /\ peakConcurrent' = IF currentOnline + 1 > peakConcurrent
                         THEN currentOnline + 1
                         ELSE peakConcurrent
    /\ last' = Signal("fingerprintOnline", s, Null, Null, FALSE)
    /\ sent' = {}
    /\ UNCHANGED <<status, rooms, matchmakingQueue, joined>>
    /\ UNCHANGED <<uniqueVisitors, totalVisits>>

\* The last awaits of the handler settled: io.emit('analyticsUpdate').
FingerprintBroadcast(s) ==
    /\ fingerprints[s].recordVisitor > 0
    /\ steps' = steps + 1
    /\ fingerprints' = Resume(s, "recordVisitor", Null)
    /\ last' = Signal("fingerprintDone", s, Null, Null, FALSE)
    /\ sent' = AnalyticsUpdate
    /\ UNCHANGED <<status, rooms, matchmakingQueue, joined, currentOnline>>
    /\ UNCHANGED <<uniqueVisitors, totalVisits, peakConcurrent>>

Next ==
    \/ \E s \in Sockets : Connect(s)
    \/ \E s \in Sockets, roomId \in RoomIds : CreateRoom(s, roomId)
    \/ \E s \in Sockets, roomId \in RoomIds : JoinRoom(s, roomId)
    \/ \E s \in Sockets, name \in Names : Move(s, name)
    \/ \E s \in Sockets, name \in Names : GameOver(s, name)
    \/ \E s \in Sockets, name \in Names : RematchRequest(s, name)
    \/ \E s \in Sockets, name \in Names : RematchAccept(s, name)
    \/ \E s \in Sockets, name \in Names : RematchDecline(s, name)
    \/ \E s \in Sockets, roomId \in RoomIds, timeControl \in TimeControls :
            TimeControlSet(s, roomId, timeControl)
    \/ \E s \in Sockets, timeControl \in TimeControls, ignoreTime \in BOOLEAN,
          roomId \in RoomIds : FindMatch(s, timeControl, ignoreTime, roomId)
    \/ \E s \in Sockets : CancelMatchmaking(s)
    \/ \E s \in Sockets, roomId \in RoomIds : LeaveRoom(s, roomId)
    \/ \E s \in Sockets : DisconnectBegin(s)
    \/ \E s \in Sockets : DisconnectFinish(s)

Spec == Init /\ [][Next]_vars

\* The handlers that act on the room store, the queue or the connections:
\* every handler but the five relays, which leave all of those unchanged.
NextCore ==
    \/ \E s \in Sockets : Connect(s)
    \/ \E s \in Sockets, roomId \in RoomIds : CreateRoom(s, roomId)
    \/ \E s \in Sockets, roomId \in RoomIds : JoinRoom(s, roomId)
    \/ \E s \in Sockets, roomId \in RoomIds, timeControl \in TimeControls :
            TimeControlSet(s, roomId, timeControl)
    \/ \E s \in Sockets, timeControl \in TimeControls, ignoreTime \in BOOLEAN,
          roomId \in RoomIds : FindMatch(s, timeControl, ignoreTime, roomId)
    \/ \E s \in Sockets : CancelMatchmaking(s)
    \/ \E s \in Sockets, roomId \in RoomIds : LeaveRoom(s, roomId)
    \/ \E s \in Sockets : DisconnectBegin(s)
    \/ \E s \in Sockets : DisconnectFinish(s)

SpecCore == Init /\ [][NextCore]_vars

\* The same handlers with a persistence collaborator that may never answer.
\* The event loop resumes a suspended handler once its awaited promise has
\* settled, which is the only fairness the liveness claims may rely on.
NextLive ==
    \/ NextCore
    \/ \E s \in Sockets : RemoveSessionStalls(s)

SpecLive ==
    Init /\ [][NextLive]_vars /\ \A s \in Sockets : WF_vars(DisconnectFinish(s))

\* The handlers that act on the online counter: a connection's life cycle and
\* its 'fingerprint' handlers, every await answered sooner or later.
NextOnline ==
    \/ \E s \in Sockets : Connect(s)
    \/ \E s \in Sockets : Fingerprint(s)
    \/ \E s \in Sockets : FingerprintUnique(s)
    \/ \E s \in Sockets : FingerprintOnline(s)
    \/ \E s \in Sockets : FingerprintBroadcast(s)
    \/ \E s \in Sockets : DisconnectBegin(s)
    \/ \E s \in Sockets : DisconnectFinish(s)

SpecOnline == Init /\ [][NextOnline]_vars

(* ------------------------- claims: vocabulary -------------------------- *)

\* The connections the room store lists as occupants of room r (none when r
\* is not a live room).
Occupants(rs, r) ==
    IF r \in DOMAIN rs THEN {rs[r].players[i] : i \in 1..Len(rs[r].players)}
    ELSE {}

RelayOps ==
    {"move", "gameOver", "rematchRequest", "rematchAccept", "rematchDecline"}

RelayEvents ==
    {"opponentMove", "gameOver", "rematchRequest", "rematchAccepted",
     "rematchDeclined"}

\* The queue entries of connection s.
EntriesOf(q, s) == {i \in 1..Len(q) : q[i].socketId = s}

(* ------------------------------- C1 ------------------------------------ *)

\* C1: relay isolation. Whenever a relay signal naming room R has just been
\* handled, every connection a relayed event was delivered to is an occupant
\* of R in the room store, and is not the sender.
C1_RelayIsolation ==
    last.op \in RelayOps =>
        \A m \in sent :
            m.to \in Occupants(rooms, last.roomId) \ {last.socketId}

(* ------------------------------- C2 ------------------------------------ *)

\* C2: a relay signal whose sender is not an occupant of the named room (or
\* whose named room is not live) is dropped: nothing is delivered to anyone.
C2_NonOccupantRelayDropped ==
    (last.op \in RelayOps /\ last.socketId \notin Occupants(rooms, last.roomId))
        => sent = {}

(* ------------------------------- C3 ------------------------------------ *)

\* C3: once the disconnect handler of a connection has run to its end, the
\* connection has no queue entry and occupies no live room.
C3_NoResidueAfterDisconnect ==
    \A s \in Sockets :
        status[s] = "closed" =>
            /\ EntriesOf(matchmakingQueue, s) = {}
            /\ \A r \in DOMAIN rooms : s \notin Occupants(rooms, r)

(* ------------------------------- C4 ------------------------------------ *)

\* C4: the matchmaking queue holds at most one entry per connection id.
C4_OneEntryPerConnection ==
    \A s \in Sockets : Cardinality(EntriesOf(matchmakingQueue, s)) <= 1

(* ----------------------- claims: matchmaking --------------------------- *)

\* The compatibility predicate as the specification states it, for a queue
\* entry e and a request (timeControl, ignoreTime).
SpecCompatible(e, timeControl, ignoreTime) ==
    e.timeControl = timeControl \/ e.ignoreTime \/ ignoreTime

\* The positions of the queue entries compatible with a request.
CompatibleAt(q, timeControl, ignoreTime) ==
    {i \in 1..Len(q) : SpecCompatible(q[i], timeControl, ignoreTime)}

\* The earliest of a non-empty set of queue positions.
Earliest(positions) == CHOOSE i \in positions : \A j \in positions : i <= j

\* A findMatch step that found a compatible entry in the queue it started from.
MatchStep ==
    /\ last'.op = "findMatch"
    /\ CompatibleAt(matchmakingQueue, last'.timeControl, last'.ignoreTime) # {}

\* The entry such a step is to match: the earliest compatible one.
Waiting ==
    matchmakingQueue[Earliest(CompatibleAt(matchmakingQueue, last'.timeControl,
                                           last'.ignoreTime))]

(* ------------------------------- C5 ------------------------------------ *)

C5_Step ==
    last'.op = "findMatch" =>
        LET s == last'.socketId
            tc == last'.timeControl
            ign == last'.ignoreTime
            q == matchmakingQueue
            found == CompatibleAt(q, tc, ign)
        IN IF found # {}
           THEN LET i == Earliest(found)
                IN /\ Len(matchmakingQueue') = Len(q) - 1
                   /\ \A k \in 1..(Len(q) - 1) :
                          matchmakingQueue'[k] = IF k < i THEN q[k] ELSE q[k + 1]
                   /\ \E r \in DOMAIN rooms' :
                          rooms'[r].players = <<q[i].socketId, s>>
                   /\ \A m \in sent' : m.ev # "searching"
           ELSE /\ matchmakingQueue' =
                      Append(q, [socketId |-> s, timeControl |-> tc,
                                 ignoreTime |-> ign])
                /\ sent' = {Msg(s, "searching", Null, Null, Null, Null)}

\* C5: first-fit matching. A findMatch request is matched with the earliest
\* queue entry that is compatible with it, and exactly that entry leaves the
\* queue; if and only if there is none, one entry for the requester is
\* appended at the tail and 'searching' is sent to the requester alone.
C5_FirstFit == [][C5_Step]_vars

\* A match was made while another entry stayed behind in the queue.
C5_Witness ==
    /\ last.op = "findMatch"
    /\ \E m \in sent : m.ev = "matchFound"
    /\ Len(matchmakingQueue) >= 1

(* ------------------------------- C6 ------------------------------------ *)

\* The time control a match step announces to the requester.
Resolved(msgs, s) ==
    {m.timeControl : m \in {x \in msgs : x.ev = "matchFound" /\ x.to = s}}

C6_Step ==
    MatchStep =>
        LET w == Waiting
            tc == last'.timeControl
            ign == last'.ignoreTime
            res == Resolved(sent', last'.socketId)
        IN /\ res # {}
           /\ \A r \in res :
                /\ w.timeControl = tc => r = tc
                /\ (w.timeControl # tc /\ ~w.ignoreTime /\ ign) => r = w.timeControl
                /\ (w.timeControl # tc /\ w.ignoreTime /\ ~ign) => r = tc
                /\ (w.timeControl # tc /\ w.ignoreTime /\ ign) => r = w.timeControl
                /\ ~w.ignoreTime => r = w.timeControl
                /\ ~ign => r = tc

\* C6: the time control of a match follows the four resolution rules, so a
\* party that did not set ignoreTime always gets the time control it asked for.
C6_TimeControlResolution == [][C6_Step]_vars

\* A match of two ignoring parties that asked for different time controls:
\* the requester is told a time control other than its own.
C6_Witness ==
    /\ last.op = "findMatch"
    /\ last.ignoreTime
    /\ \E m \in sent :
          /\ m.ev = "matchFound" /\ m.to = last.socketId
          /\ m.timeControl # last.timeControl
          /\ Has(rooms, m.roomId)
          /\ rooms[m.roomId].timeControl = m.timeControl

(* ------------------------------- C7 ------------------------------------ *)

C7_Step ==
    MatchStep =>
        LET w == Waiting.socketId
            s == last'.socketId
        IN \E r \in DOMAIN rooms' :
              /\ rooms'[r].players = <<w, s>>
              /\ rooms'[r].white = w
              /\ rooms'[r].black = s
              /\ \E m \in sent' :
                    /\ m.to = w /\ m.ev = "matchFound" /\ m.roomId = r
                    /\ m.color = "white"
                    /\ m.timeControl = rooms'[r].timeControl
              /\ \E m \in sent' :
                    /\ m.to = s /\ m.ev = "matchFound" /\ m.roomId = r
                    /\ m.color = "black"
                    /\ m.timeControl = rooms'[r].timeControl

\* C7: every match creates, in one step, a room with the waiting connection
\* as first occupant (white) and the requester as second (black), and both
\* connections are sent matchFound with that room id, their own color and the
\* time control stored on the room.
C7_MatchCreatesRoomAndNotifiesBoth == [][C7_Step]_vars

(* ------------------------------- C8 ------------------------------------ *)

C8_Step ==
    last'.op = "findMatch" =>
        \A m \in sent' : m.ev = "matchFound" => m.roomId \notin DOMAIN rooms

\* C8: the room id generated for a match is not the id of a room that is
\* live when the match is made.
C8_FreshRoomId == [][C8_Step]_vars

(* ------------------------- claims: room store -------------------------- *)

(* ------------------------------- C9 ------------------------------------ *)

C9_Step ==
    last'.op = "createRoom" =>
        LET s == last'.socketId
            r == last'.roomId
        IN IF r \in DOMAIN rooms
           THEN /\ sent' = {ErrorMsg(s, "Room already exists")}
                /\ rooms' = rooms
           ELSE /\ DOMAIN rooms' = (DOMAIN rooms) \cup {r}
                /\ rooms'[r].players = <<s>>
                /\ rooms'[r].black = Null
                /\ rooms'[r].timeControl = Null
                /\ \A x \in DOMAIN rooms : rooms'[x] = rooms[x]

\* C9: createRoom with a live id sends a room-already-exists error to the
\* caller alone and leaves every room as it was; createRoom with an id that
\* is not live creates a room with the caller as only occupant, no second
\* occupant and no time control, and leaves the other rooms as they were.
C9_CreateRoom == [][C9_Step]_vars

\* A third connection was refused the id of a room that two others occupy.
C9_Witness ==
    /\ last.op = "createRoom"
    /\ ErrorMsg(last.socketId, "Room already exists") \in sent
    /\ Cardinality(Occupants(rooms, last.roomId)) = 2
    /\ last.socketId \notin Occupants(rooms, last.roomId)

(* ------------------------------- C10 ----------------------------------- *)

C10_Occupancy ==
    \A r \in DOMAIN rooms : Len(rooms[r].players) \in {1, 2}

C10_Step ==
    last'.op = "joinRoom" =>
        LET s == last'.socketId
            r == last'.roomId
        IN /\ r \notin DOMAIN rooms =>
                /\ sent' = {ErrorMsg(s, "Room does not exist")}
                /\ UNCHANGED <<rooms, joined, matchmakingQueue, status>>
           /\ (r \in DOMAIN rooms /\ Len(rooms[r].players) = 2) =>
                /\ sent' = {ErrorMsg(s, "Room is full")}
                /\ UNCHANGED <<rooms, joined, matchmakingQueue, status>>

\* C10: every live room lists one or two occupants; joinRoom on a room that
\* holds two occupants sends a room-full error to the caller alone and
\* changes nothing, and joinRoom on an absent room sends a room-not-found
\* error to the caller alone and changes nothing.
C10_JoinRoomBounds == []C10_Occupancy /\ [][C10_Step]_vars

\* A third connection was refused a room that two others occupy.
C10_Witness ==
    /\ last.op = "joinRoom"
    /\ ErrorMsg(last.socketId, "Room is full") \in sent
    /\ Cardinality(Occupants(rooms, last.roomId)) = 2
    /\ last.socketId \notin Occupants(rooms, last.roomId)

(* ------------------------- claims: leaving ----------------------------- *)

\* The step removed connection x from the room store: a leaveRoom signal of
\* x naming r, or the end of x's disconnect handler.
Departs(x, r) ==
    /\ x \in Occupants(rooms, r)
    /\ \/ last'.op = "leaveRoom" /\ last'.socketId = x /\ last'.roomId = r
       \/ last'.op = "disconnectDone" /\ last'.socketId = x

\* The opponentDisconnected messages the step delivered to y through room r.
LeftNotices(y, r) ==
    {m \in sent' : m.to = y /\ m.ev = "opponentDisconnected" /\ m.via = r}

(* ------------------------------- C11 ----------------------------------- *)

C11_Step ==
    \A x \in Sockets, r \in DOMAIN rooms :
        Departs(x, r) =>
            LET others == Occupants(rooms, r) \ {x}
            IN IF others = {}
               THEN r \notin DOMAIN rooms'
               ELSE /\ r \in DOMAIN rooms'
                    /\ Occupants(rooms', r) = others
                    /\ \A y \in others : Cardinality(LeftNotices(y, r)) = 1

\* C11: when one of the two occupants of a room leaves, by
\* leaveRoom or by disconnect, the room stays live with exactly the other
\* occupant, who is sent opponentDisconnected exactly once; when the last
\* occupant leaves the room is removed; every live room has an occupant.
C11_LeaveSemantics ==
    [](\A r \in DOMAIN rooms : Len(rooms[r].players) > 0)
        /\ [][C11_Step]_vars

(* ------------------------------- C12 ----------------------------------- *)

\* The signals that C12 says never change a room's white designation.
KeepWhiteOps ==
    {"joinRoom", "leaveRoom", "disconnect", "disconnectDone", "timeControlSet"}
        \cup RelayOps

C12_Step ==
    /\ (last'.op = "createRoom" /\ last'.roomId \notin DOMAIN rooms) =>
            /\ last'.roomId \in DOMAIN rooms'
            /\ rooms'[last'.roomId].white = last'.socketId
            /\ rooms'[last'.roomId].players[1] = last'.socketId
    /\ MatchStep =>
            \A m \in sent' :
                (m.ev = "matchFound" /\ m.to = last'.socketId) =>
                    /\ m.roomId \in DOMAIN rooms'
                    /\ rooms'[m.roomId].white = Waiting.socketId
                    /\ rooms'[m.roomId].players[1] = Waiting.socketId
    /\ last'.op \in KeepWhiteOps =>
            \A r \in (DOMAIN rooms) \cap (DOMAIN rooms') :
                rooms'[r].white = rooms[r].white

\* C12: the creator of a room, or the waiting party of a match, is the
\* room's first occupant and white from creation on, and no joinRoom,
\* leaveRoom, disconnect, timeControlSet or relay signal changes the white
\* designation of a room that stays live.
C12_WhiteIsFixed == [][C12_Step]_vars

\* The white connection has left and the room is live with its designation
\* unchanged.
C12_Witness ==
    /\ last.op = "leaveRoom"
    /\ Has(rooms, last.roomId)
    /\ rooms[last.roomId].white = last.socketId
    /\ last.socketId \notin Occupants(rooms, last.roomId)

(* ------------------------------- C13 ----------------------------------- *)

\* C13: a connection that occupies a room when its transport closes is
\* eventually out of every room's occupant list, whether removeSession
\* succeeds, fails or never completes.
C13_CleanupWithoutCollaborator ==
    \A s \in Sockets :
        (status[s] \in {"disconnecting", "stalled"} /\ RoomsOf(rooms, s) # {})
            ~> (RoomsOf(rooms, s) = {})

(* ------------------------------- C14 ----------------------------------- *)

\* The entries of queue q that do not belong to connection s, in q's order.
WithoutEntriesOf(q, s) == SelectSeq(q, LAMBDA e : e.socketId # s)

C14_Step ==
    last'.op = "cancelMatchmaking" =>
        /\ matchmakingQueue' = WithoutEntriesOf(matchmakingQueue, last'.socketId)
        /\ rooms' = rooms
        /\ EntriesOf(matchmakingQueue, last'.socketId) = {}
                => matchmakingQueue' = matchmakingQueue

\* C14: after cancelMatchmaking from connection C the queue holds no entry
\* of C, the entries of the other connections are all there in the same
\* order, and no room has changed; a cancel with no entry of C changes
\* nothing.
C14_CancelRemovesEntry == [][C14_Step]_vars

(* ------------------------------- C15 ----------------------------------- *)

C15_Step ==
    (/\ last'.op = "joinRoom"
     /\ last'.roomId \in DOMAIN rooms
     /\ Len(rooms[last'.roomId].players) < 2) =>
        LET s == last'.socketId
            r == last'.roomId
            stored == rooms[r].timeControl
            syncs == {m \in sent' : m.ev = "timeControlSync"}
        IN /\ stored # Null =>
                syncs = {Msg(s, "timeControlSync", Null, Null, Null, stored)}
           /\ stored = Null => syncs = {}
           /\ \A m \in sent' : m.to # s => m.ev = "opponentJoined"
           /\ \A y \in Occupants(rooms, r) \ {s} :
                status[y] = "connected" =>
                    \E m \in sent' : m.to = y /\ m.ev = "opponentJoined"

\* C15: a successful joinRoom sends timeControlSync, carrying the time
\* control stored on the room, to the joiner if and only if one is stored,
\* and to nobody else; the occupant already there receives opponentJoined
\* and nothing else.
C15_JoinTimeSync == [][C15_Step]_vars

\* A join into a room whose time control was set: the joiner got the sync,
\* the creator got opponentJoined.
C15_Witness ==
    /\ last.op = "joinRoom"
    /\ \E m \in sent : m.ev = "timeControlSync" /\ m.to = last.socketId
    /\ \E m \in sent : m.ev = "opponentJoined" /\ m.to # last.socketId

(* ------------------------------- C16 ----------------------------------- *)

\* C16: no two entries of the queue are compatible with each other (equal
\* time control, or ignoreTime set on either); so an entry with ignoreTime
\* set is the only entry of the queue.
C16_QueuePairwiseIncompatible ==
    LET q == matchmakingQueue
    IN /\ \A i, j \in 1..Len(q) :
            i # j => /\ q[i].timeControl # q[j].timeControl
                     /\ ~q[i].ignoreTime
                     /\ ~q[j].ignoreTime
       /\ \A i \in 1..Len(q) : q[i].ignoreTime => Len(q) = 1

\* Two connections wait side by side, and a third request has just been
\* queued or matched.
C16_Witness ==
    /\ Len(matchmakingQueue) = 2
    /\ matchmakingQueue[1].socketId # matchmakingQueue[2].socketId
    /\ last.op = "findMatch"

(* ------------------------------- C17 ----------------------------------- *)

\* C17: in every room the occupants are distinct connections: no connection
\* holds both places of a room.
C17_OccupantsDistinct ==
    \A r \in DOMAIN rooms :
        \A i, j \in 1..Len(rooms[r].players) :
            i # j => rooms[r].players[i] # rooms[r].players[j]

(* ------------------------------- C18 ----------------------------------- *)

C18_Step ==
    /\ \A m \in sent' :
          (m.ev = "opponentDisconnected" /\ m.to \in Occupants(rooms', m.via)) =>
              \E x \in Occupants(rooms, m.via) \ {m.to} :
                  x \notin Occupants(rooms', m.via)
    /\ (/\ last'.op = "leaveRoom"
        /\ last'.socketId \notin Occupants(rooms, last'.roomId)) =>
            /\ sent' = {}
            /\ UNCHANGED <<rooms, matchmakingQueue>>

\* C18: opponentDisconnected reaches an occupant of a room only in a step
\* that removed another occupant from that room's players; a leaveRoom from
\* a connection that is not an occupant of the room changes neither rooms
\* nor queue and delivers no message.
C18_LeftNoticeOnlyOnDeparture == [][C18_Step]_vars

(* ------------------------------- C19 ----------------------------------- *)

\* C19: in every reachable state a connection is an occupant of at most one
\* live room.
C19_AtMostOneRoom ==
    \A s \in Sockets : Cardinality(RoomsOf(rooms, s)) <= 1

(* ------------------------------- C20 ----------------------------------- *)

\* C20: whenever a live room has two occupants, its white and black
\* designations name exactly those two, one each.
C20_RolesNameOccupants ==
    \A r \in DOMAIN rooms :
        Cardinality(Occupants(rooms, r)) = 2 =>
            /\ rooms[r].white # rooms[r].black
            /\ {rooms[r].white, rooms[r].black} = Occupants(rooms, r)

(* ------------------------------- C21 ----------------------------------- *)

\* Every connection that was opened has disconnected, and no 'fingerprint'
\* or 'disconnect' handler is still suspended at an await.
AllHandlersDone ==
    /\ \E s \in Sockets : status[s] = "closed"
    /\ \A s \in Sockets :
          /\ status[s] \in {"fresh", "closed"}
          /\ fingerprints[s] = NoHandlers

\* C21: starting from 0, the online counter never goes negative, and it is 0
\* again once every connection has disconnected and all of its fingerprint
\* and disconnect handlers have run to completion.
C21_OnlineCounterReturnsToZero ==
    /\ currentOnline >= 0
    /\ AllHandlersDone => currentOnline = 0

====
